---- MODULE Spec2Model ----
(***************************************************************************)
(* A model of src/main.py: the lazily generated text adventure.  One Game  *)
(* instance (one session) is modelled: its rooms, its player, the path     *)
(* depth, the story theme, the coroutines suspended in a generation call   *)
(* and the text the last command returned.  The narrative service is the   *)
(* environment: every call to it draws its answer from a small catalogue   *)
(* of well-formed results, malformed results and a transport failure.      *)
(***************************************************************************)
EXTENDS Naturals, Sequences, FiniteSets, TLC

VARIABLES
  pc,                  \* position of main(): constructed, initializing, initialized, playing
  last_call,           \* the call on the Game object made last: [op, arg]
  rooms,               \* Game.rooms: room id -> Room
  player,              \* Game.player: [name, inventory, current_room]
  story_theme,         \* Game.story_theme
  goal_description,    \* Game.goal_description
  current_path_depth,  \* Game.current_path_depth
  max_path_depth,      \* Game.max_path_depth
  pending,             \* coroutines suspended at the await in generate_room
  requests,            \* log of the room generation requests issued so far
  theme_calls,         \* number of theme generation calls issued so far
  fallback_ids,        \* ids whose stored Room came from create_fallback_room
  response             \* what the last completed call returned to its caller

vars == <<pc, last_call, rooms, player, story_theme, goal_description, current_path_depth,
          max_path_depth, pending, requests, theme_calls, fallback_ids, response>>

-----------------------------------------------------------------------------
(* Bounds of the model *)

\* room generation requests one session may issue (start included)
MaxRequests == 3

\* coroutines that may be suspended in generate_room at once (SpecConc)
MaxTasks == 2

\* room generation requests of a session in which every call of the service
\* so far has failed: enough for the path depth to pass max_path_depth
MaxOutageRequests == 12

-----------------------------------------------------------------------------
(* Values *)

None == "None"

DefaultMaxPathDepth == 10

DefaultTheme == "A mysterious adventure"

DefaultGoal == "Discover the truth and find your way home"

\* str.lower() on the words the model uses
Lower(s) ==
  CASE s = "Key" -> "key"
    [] s = "Lamp" -> "lamp"
    [] s = "TAKE" -> "take"
    [] s = "Look" -> "look"
    [] OTHER -> s

\* f"{room_id}_{direction}"
NewRoomId(room_id, direction) == room_id \o "_" \o direction

\* the verbs process_command hands to cmd_move
MoveVerbs == {"n", "s", "e", "w", "north", "south", "east", "west"}

\* the index set of a sequence
Indices(s) == 1..Len(s)

\* the least element of a non-empty set of naturals
Least(S) == CHOOSE i \in S : \A j \in S : i <= j

\* a sequence without its i-th element
RemoveAt(s, i) == [j \in 1..(Len(s) - 1) |-> IF j < i THEN s[j] ELSE s[j + 1]]

\* a mapping with key k bound to v (dict assignment)
Bind(f, k, v) == [x \in (DOMAIN f) \cup {k} |-> IF x = k THEN v ELSE f[x]]

-----------------------------------------------------------------------------
(* The narrative service: what a call may answer *)

\* a call that raised carries no body
NoData == [error |-> "transport"]

JKeyT == [name |-> "Key", description |-> "a small key", can_take |-> TRUE]

JKeyF == [name |-> "key", description |-> "a key set in stone", can_take |-> FALSE]

JLampF == [name |-> "Lamp", description |-> "a lamp chained to the wall", can_take |-> FALSE]

\* an item object lacking its name: Item(**item) raises TypeError
JBroken == [description |-> "a shapeless thing", can_take |-> TRUE]

\* parsed JSON bodies of room generation answers (dicts); the first one leaves
\* the optional keys hints and is_goal out, and one of its direction labels
\* holds the separator of the id scheme
RoomDataHall ==
  [name |-> "Hall", description |-> "A long hall.",
   items |-> <<JLampF, JKeyF, JKeyT>>,
   suggested_exits |-> {"n", "n_n"}]

RoomDataVault ==
  [name |-> "Vault", description |-> "The vault at last.",
   items |-> <<JKeyT, JKeyF, JKeyT>>, hints |-> <<"It gleams.">>,
   suggested_exits |-> {"north"}, is_goal |-> TRUE]

\* required key suggested_exits missing: KeyError
RoomDataNoExits ==
  [name |-> "Void", description |-> "Nothing.", items |-> <<JKeyT>>, is_goal |-> TRUE]

\* an item of the list cannot be constructed
RoomDataBadItem ==
  [name |-> "Heap", description |-> "A heap.", items |-> <<JKeyT, JBroken>>,
   suggested_exits |-> {"n"}, is_goal |-> FALSE]

\* what the await in generate_room resumes with
RoomAnswers ==
  {[ok |-> TRUE, data |-> d] :
     d \in {RoomDataHall, RoomDataVault, RoomDataNoExits, RoomDataBadItem}}
  \cup {[ok |-> FALSE, data |-> NoData]}

ThemeDataFull ==
  [theme |-> "The lost crown", goal |-> "Find the crown", backstory |-> "Long ago"]

ThemeDataNoGoal == [theme |-> "The lost crown", backstory |-> "Long ago"]

ThemeDataNoBackstory == [theme |-> "The lost crown", goal |-> "Find the crown"]

\* what the await in generate_story_theme resumes with
ThemeAnswers ==
  {[ok |-> TRUE, data |-> d] :
     d \in {ThemeDataFull, ThemeDataNoGoal, ThemeDataNoBackstory}}
  \cup {[ok |-> FALSE, data |-> NoData]}

\* what the await in get_contextual_hint resumes with
HintAnswers == {[ok |-> TRUE, content |-> "Look north."], [ok |-> FALSE, content |-> ""]}

-----------------------------------------------------------------------------
(* Item, Room, Player *)

\* Item(**item): the object built from one JSON item; oid is the object's identity
MakeItem(item, oid) ==
  [oid |-> oid, name |-> item.name, description |-> item.description,
   can_take |-> IF "can_take" \in DOMAIN item THEN item.can_take ELSE TRUE]

\* Item(**item) succeeds: name and description are given, no unknown key
ItemConstructible(item) ==
  /\ {"name", "description"} \subseteq DOMAIN item
  /\ DOMAIN item \subseteq {"name", "description", "can_take"}

\* dataclass equality of two Item objects: field by field, identity apart
ItemEq(a, b) ==
  a.name = b.name /\ a.description = b.description /\ a.can_take = b.can_take

\* dict.get(key, default)
Get(d, key, default) == IF key \in DOMAIN d THEN d[key] ELSE default

\* create_fallback_room with the back exit continuing the id scheme
create_fallback_room_scheme(room_id) ==
  [name |-> "Mysterious Chamber",
   description |-> "A mysterious chamber with shifting walls.",
   items |-> <<>>,
   exits |-> [d \in {"forward", "back"} |-> NewRoomId(room_id, d)],
   visited |-> FALSE,
   hints |-> <<"The path ahead seems to pulse with energy.">>,
   is_goal |-> FALSE]

\* create_fallback_room
create_fallback_room(room_id) ==
  [name |-> "Mysterious Chamber",
   description |-> "A mysterious chamber with shifting walls.",
   items |-> <<>>,
   exits |-> [d \in {"forward", "back"} |->
                IF d = "forward" THEN NewRoomId(room_id, "forward") ELSE "start"],
   visited |-> FALSE,
   hints |-> <<"The path ahead seems to pulse with energy.">>,
   is_goal |-> FALSE]

\* the try block of generate_room raises: transport failure, a required key
\* missing, or an item that cannot be constructed
GenerationRaises(answer) ==
  \/ ~answer.ok
  \/ ~({"name", "description", "items", "suggested_exits"} \subseteq DOMAIN answer.data)
  \/ \E i \in Indices(answer.data.items) : ~ItemConstructible(answer.data.items[i])

\* generate_room naming the exit targets after the direction alone
generate_room_flat(room_id, call, answer) ==
  IF GenerationRaises(answer) THEN create_fallback_room(room_id)
  ELSE LET room_data == answer.data IN
       [name |-> room_data.name,
        description |-> room_data.description,
        items |-> [i \in Indices(room_data.items) |->
                     MakeItem(room_data.items[i], <<call, i>>)],
        exits |-> [d \in room_data.suggested_exits |-> NewRoomId("start", d)],
        visited |-> FALSE,
        hints |-> Get(room_data, "hints", <<>>),
        is_goal |-> Get(room_data, "is_goal", FALSE)]

\* generate_room after its await: the Room built from the answer, or the fallback
generate_room(room_id, call, answer) ==
  IF GenerationRaises(answer) THEN create_fallback_room(room_id)
  ELSE LET room_data == answer.data IN
       [name |-> room_data.name,
        description |-> room_data.description,
        items |-> [i \in Indices(room_data.items) |->
                     MakeItem(room_data.items[i], <<call, i>>)],
        exits |-> [d \in room_data.suggested_exits |-> NewRoomId(room_id, d)],
        visited |-> FALSE,
        hints |-> Get(room_data, "hints", <<>>),
        is_goal |-> Get(room_data, "is_goal", FALSE)]

\* generate_story_theme raises inside its try block: transport failure, or one
\* of story_data["theme"], story_data["goal"], story_data['backstory'] missing
ThemeRaises(answer) ==
  \/ ~answer.ok
  \/ "theme" \notin DOMAIN answer.data
  \/ "goal" \notin DOMAIN answer.data
  \/ "backstory" \notin DOMAIN answer.data

\* generate_story_theme keeping what it assigned before its try block raised
generate_story_theme_partial(answer) ==
  [story_theme |-> IF answer.ok /\ "theme" \in DOMAIN answer.data
                   THEN answer.data.theme ELSE DefaultTheme,
   goal_description |-> IF answer.ok /\ {"theme", "goal"} \subseteq DOMAIN answer.data
                        THEN answer.data.goal ELSE DefaultGoal]

\* generate_story_theme after its await: the (story_theme, goal_description) it leaves
generate_story_theme(answer) ==
  IF ThemeRaises(answer)
  THEN [story_theme |-> DefaultTheme, goal_description |-> DefaultGoal]
  ELSE [story_theme |-> answer.data.theme, goal_description |-> answer.data.goal]

\* Game.player before initialize_game creates the Player
NoPlayer == [name |-> None, inventory |-> <<>>, current_room |-> None]

\* Player("Adventurer")
NewPlayer == [name |-> "Adventurer", inventory |-> <<>>, current_room |-> None]

-----------------------------------------------------------------------------
(* Texts returned to the caller *)

NoText == [text |-> ""]

CantGoText == [text |-> "You can't go that way."]

EnterCommandText == [text |-> "Please enter a command."]

DontUnderstandText == [text |-> "I don't understand that command."]

HelpText == [text |-> "Available commands:"]

EmptyHandedText == [text |-> "You are empty-handed."]

HintFallbackText ==
  [text |-> "You might want to examine your surroundings more carefully..."]

\* the names of a list of items, in order
ItemNames(items) == [i \in Indices(items) |-> items[i].name]

\* the text cmd_look builds for a room: the hint list is part of it only
\* when the room has not been visited
LookText(room) ==
  [text |-> "look", name |-> room.name, description |-> room.description,
   items |-> ItemNames(room.items), exits |-> DOMAIN room.exits,
   hints |-> IF ~room.visited THEN room.hints ELSE <<>>]

\* the text handle_goal_room builds
GoalText(room, goal) ==
  [text |-> "Congratulations!", description |-> room.description, goal |-> goal]

-----------------------------------------------------------------------------
(* The commands, as functions of the state they read *)

\* the Room the player stands in
CurrentRoom == rooms[player.current_room]

\* cmd_look forgetting to set the visited flag
Visit_forget(room) == room

\* the room with its visited flag set, as cmd_look leaves it
Visit(room) == [room EXCEPT !.visited = TRUE]

\* the positions of the items cmd_take's loop accepts: item.name.lower() == item_name
Matches(items, item_name) == {i \in Indices(items) : Lower(items[i].name) = item_name}

\* a removal that drops the last element equal to item
ListRemove_last(items, item) ==
  LET eq == {i \in Indices(items) : ItemEq(items[i], item)}
  IN RemoveAt(items, CHOOSE i \in eq : \A j \in eq : j <= i)

\* list.remove(item): the list without its first element equal to item
ListRemove(items, item) ==
  RemoveAt(items, Least({i \in Indices(items) : ItemEq(items[i], item)}))

\* take_item without its can_take test
take_item_always(inventory, item) ==
  [taken |-> TRUE, inventory |-> Append(inventory, item)]

\* Player.take_item: what it returns and the inventory it leaves
take_item(inventory, item) ==
  IF item.can_take
  THEN [taken |-> TRUE, inventory |-> Append(inventory, item)]
  ELSE [taken |-> FALSE, inventory |-> inventory]

\* cmd_take leaving the item it hands to the player in the room as well
cmd_take_copy(items, inventory, item_name) ==
  IF Matches(items, item_name) = {}
  THEN [items |-> items, inventory |-> inventory,
        text |-> [text |-> "I don't see that here.", item |-> item_name]]
  ELSE LET item == items[Least(Matches(items, item_name))]
           got == take_item(inventory, item)
       IN IF got.taken
          THEN [items |-> items, inventory |-> got.inventory,
                text |-> [text |-> "Taken", item |-> item.name]]
          ELSE [items |-> items, inventory |-> got.inventory,
                text |-> [text |-> "You can't take it.", item |-> item.name]]

\* cmd_take falling back on the first item of the room when none matches
cmd_take_any(items, inventory, item_name) ==
  LET found == IF Matches(items, item_name) = {} THEN Indices(items)
               ELSE Matches(items, item_name)
  IN IF found = {}
     THEN [items |-> items, inventory |-> inventory,
           text |-> [text |-> "I don't see that here.", item |-> item_name]]
     ELSE LET item == items[Least(found)]
              got == take_item(inventory, item)
          IN IF got.taken
             THEN [items |-> ListRemove(items, item), inventory |-> got.inventory,
                   text |-> [text |-> "Taken", item |-> item.name]]
             ELSE [items |-> items, inventory |-> got.inventory,
                   text |-> [text |-> "You can't take it.", item |-> item.name]]

\* cmd_take: the room's items, the inventory and the text it leaves; the first
\* item of the list whose lowered name is item_name decides
cmd_take(items, inventory, item_name) ==
  IF Matches(items, item_name) = {}
  THEN [items |-> items, inventory |-> inventory,
        text |-> [text |-> "I don't see that here.", item |-> item_name]]
  ELSE LET item == items[Least(Matches(items, item_name))]
           got == take_item(inventory, item)
       IN IF got.taken
          THEN [items |-> ListRemove(items, item), inventory |-> got.inventory,
                text |-> [text |-> "Taken", item |-> item.name]]
          ELSE [items |-> items, inventory |-> got.inventory,
                text |-> [text |-> "You can't take it.", item |-> item.name]]

\* cmd_inventory
cmd_inventory(inventory) ==
  IF inventory = <<>> THEN EmptyHandedText
  ELSE [text |-> "You are carrying:", items |-> ItemNames(inventory)]

\* cmd_examine: the inventory is searched before the room
cmd_examine(items, inventory, target) ==
  IF Matches(inventory, Lower(target)) # {}
  THEN [text |-> inventory[Least(Matches(inventory, Lower(target)))].description]
  ELSE IF Matches(items, Lower(target)) # {}
  THEN [text |-> items[Least(Matches(items, Lower(target)))].description]
  ELSE [text |-> "You don't see anything special.", item |-> target]

\* get_contextual_hint after its await
get_contextual_hint(answer) ==
  IF answer.ok THEN [text |-> answer.content] ELSE HintFallbackText

\* command.lower().split(), the line being given as its words
Words(command) == [i \in Indices(command) |-> Lower(command[i])]

-----------------------------------------------------------------------------
(* Actions *)

\* a call on the Game object: the method and the words of its argument
Call(op, arg) == [op |-> op, arg |-> arg]

\* the state main() and __init__ fix and no command touches
session == <<pc, story_theme, goal_description, max_path_depth, theme_calls>>

\* the bookkeeping of generation calls
calls == <<pending, requests, fallback_ids>>

\* Game(): the state after construction
Init ==
  /\ pc = "constructed"
  /\ last_call = Call("Game", <<>>)
  /\ rooms = <<>>
  /\ player = NoPlayer
  /\ story_theme = ""
  /\ goal_description = ""
  /\ current_path_depth = 0
  /\ max_path_depth = DefaultMaxPathDepth
  /\ pending = <<>>
  /\ requests = <<>>
  /\ theme_calls = 0
  /\ fallback_ids = {}
  /\ response = NoText

\* how many requests the session at hand is followed for: one in which the
\* service has failed on every call, leaving the default theme and fallback
\* rooms only, one call for each, is followed further than one with generated
\* rooms
RequestBound ==
  IF /\ story_theme = DefaultTheme
     /\ fallback_ids = DOMAIN rooms
     /\ pending = <<>>
     /\ Len(requests) = Cardinality(DOMAIN rooms)
  THEN MaxOutageRequests
  ELSE MaxRequests

\* the request generate_room builds before its await, and the coroutine left
\* suspended on it
IssueRoomRequest(caller, room_id, depth) ==
  /\ Len(requests) < RequestBound
  /\ Len(pending) < MaxTasks
  /\ requests' = Append(requests,
                        [room_id |-> room_id, depth |-> depth, max_depth |-> max_path_depth])
  /\ pending' = Append(pending,
                       [caller |-> caller, room_id |-> room_id, call |-> Len(requests) + 1])

\* initialize_game up to the await inside generate_room("start", None):
\* generate_story_theme runs to its end, then the request for start is issued
InitializeGame(theme_answer) ==
  /\ pc = "constructed"
  /\ pc' = "initializing"
  /\ last_call' = Call("initialize_game", <<>>)
  /\ theme_calls' = theme_calls + 1
  /\ story_theme' = generate_story_theme(theme_answer).story_theme
  /\ goal_description' = generate_story_theme(theme_answer).goal_description
  /\ IssueRoomRequest("initialize_game", "start", current_path_depth)
  /\ UNCHANGED <<rooms, player, current_path_depth, max_path_depth, fallback_ids, response>>

\* the end of handle_room_transition without its goal test
Arrive_look(next_room_id, rooms1) ==
  /\ player' = [player EXCEPT !.current_room = next_room_id]
  /\ response' = LookText(rooms1[next_room_id])
  /\ rooms' = [rooms1 EXCEPT ![next_room_id] = Visit(@)]

\* handle_room_transition from player.current_room = next_room_id to its return
Arrive(next_room_id, rooms1) ==
  /\ player' = [player EXCEPT !.current_room = next_room_id]
  /\ IF rooms1[next_room_id].is_goal
     THEN /\ response' = GoalText(rooms1[next_room_id], goal_description)
          /\ rooms' = rooms1
     ELSE /\ response' = LookText(rooms1[next_room_id])
          /\ rooms' = [rooms1 EXCEPT ![next_room_id] = Visit(@)]

\* handle_room_transition moving the player before the target room is stored
handle_room_transition_early(direction) ==
  LET current_room == CurrentRoom IN
  IF direction \notin DOMAIN current_room.exits
  THEN /\ response' = CantGoText
       /\ UNCHANGED <<rooms, player, current_path_depth, calls>>
  ELSE LET next_room_id == current_room.exits[direction] IN
       IF next_room_id \notin DOMAIN rooms
       THEN /\ current_path_depth' = current_path_depth + 1
            /\ IssueRoomRequest("handle_room_transition", next_room_id,
                                current_path_depth + 1)
            /\ player' = [player EXCEPT !.current_room = next_room_id]
            /\ UNCHANGED <<rooms, fallback_ids, response>>
       ELSE /\ Arrive(next_room_id, rooms)
            /\ UNCHANGED <<current_path_depth, calls>>

\* handle_room_transition raising the depth after the request has been built
handle_room_transition_late(direction) ==
  LET current_room == CurrentRoom IN
  IF direction \notin DOMAIN current_room.exits
  THEN /\ response' = CantGoText
       /\ UNCHANGED <<rooms, player, current_path_depth, calls>>
  ELSE LET next_room_id == current_room.exits[direction] IN
       IF next_room_id \notin DOMAIN rooms
       THEN /\ current_path_depth' = current_path_depth + 1
            /\ IssueRoomRequest("handle_room_transition", next_room_id,
                                current_path_depth)
            /\ UNCHANGED <<rooms, player, fallback_ids, response>>
       ELSE /\ Arrive(next_room_id, rooms)
            /\ UNCHANGED <<current_path_depth, calls>>

\* handle_room_transition leaving the depth alone when it starts in a goal room
handle_room_transition_goal_terminal(direction) ==
  LET current_room == CurrentRoom IN
  IF direction \notin DOMAIN current_room.exits
  THEN /\ response' = CantGoText
       /\ UNCHANGED <<rooms, player, current_path_depth, calls>>
  ELSE LET next_room_id == current_room.exits[direction]
           depth == IF current_room.is_goal THEN current_path_depth
                    ELSE current_path_depth + 1
       IN
       IF next_room_id \notin DOMAIN rooms
       THEN /\ current_path_depth' = depth
            /\ IssueRoomRequest("handle_room_transition", next_room_id, depth)
            /\ UNCHANGED <<rooms, player, fallback_ids, response>>
       ELSE /\ Arrive(next_room_id, rooms)
            /\ UNCHANGED <<current_path_depth, calls>>

\* handle_room_transition refusing to realize a room once the depth has
\* reached max_path_depth
handle_room_transition_bounded(direction) ==
  LET current_room == CurrentRoom IN
  IF direction \notin DOMAIN current_room.exits
  THEN /\ response' = CantGoText
       /\ UNCHANGED <<rooms, player, current_path_depth, calls>>
  ELSE LET next_room_id == current_room.exits[direction] IN
       IF next_room_id \notin DOMAIN rooms
       THEN IF current_path_depth >= max_path_depth
            THEN /\ response' = CantGoText
                 /\ UNCHANGED <<rooms, player, current_path_depth, calls>>
            ELSE /\ current_path_depth' = current_path_depth + 1
                 /\ IssueRoomRequest("handle_room_transition", next_room_id,
                                     current_path_depth + 1)
                 /\ UNCHANGED <<rooms, player, fallback_ids, response>>
       ELSE /\ Arrive(next_room_id, rooms)
            /\ UNCHANGED <<current_path_depth, calls>>

\* handle_room_transition raising the depth before it looks the target up
handle_room_transition_eager(direction) ==
  LET current_room == CurrentRoom IN
  IF direction \notin DOMAIN current_room.exits
  THEN /\ response' = CantGoText
       /\ UNCHANGED <<rooms, player, current_path_depth, calls>>
  ELSE LET next_room_id == current_room.exits[direction] IN
       IF next_room_id \notin DOMAIN rooms
       THEN /\ current_path_depth' = current_path_depth + 1
            /\ IssueRoomRequest("handle_room_transition", next_room_id,
                                current_path_depth + 1)
            /\ UNCHANGED <<rooms, player, fallback_ids, response>>
       ELSE /\ current_path_depth' = current_path_depth + 1
            /\ Arrive(next_room_id, rooms)
            /\ UNCHANGED calls

\* handle_room_transition up to its return or to the await in generate_room
handle_room_transition(direction) ==
  LET current_room == CurrentRoom IN
  IF direction \notin DOMAIN current_room.exits
  THEN /\ response' = CantGoText
       /\ UNCHANGED <<rooms, player, current_path_depth, calls>>
  ELSE LET next_room_id == current_room.exits[direction] IN
       IF next_room_id \notin DOMAIN rooms
       THEN /\ current_path_depth' = current_path_depth + 1
            /\ IssueRoomRequest("handle_room_transition", next_room_id,
                                current_path_depth + 1)
            /\ UNCHANGED <<rooms, player, fallback_ids, response>>
       ELSE /\ Arrive(next_room_id, rooms)
            /\ UNCHANGED <<current_path_depth, calls>>

\* generate_room calling the service again when its try block raised
GenerateRoomReturns_retry(i, answer) ==
  /\ i \in Indices(pending)
  /\ IF GenerationRaises(answer) /\ Len(requests) < RequestBound
     THEN /\ requests' = Append(requests, requests[pending[i].call])
          /\ pending' = [pending EXCEPT ![i].call = Len(requests) + 1]
          /\ UNCHANGED <<pc, rooms, player, fallback_ids, response>>
     ELSE LET task == pending[i]
              new_room == generate_room(task.room_id, task.call, answer)
              rooms1 == Bind(rooms, task.room_id, new_room)
          IN /\ pending' = RemoveAt(pending, i)
             /\ requests' = requests
             /\ fallback_ids' = IF GenerationRaises(answer)
                                THEN fallback_ids \cup {task.room_id}
                                ELSE fallback_ids \ {task.room_id}
             /\ IF task.caller = "initialize_game"
                THEN /\ rooms' = rooms1
                     /\ player' = [NewPlayer EXCEPT !.current_room = "start"]
                     /\ pc' = "initialized"
                     /\ UNCHANGED response
                ELSE /\ Arrive(task.room_id, rooms1)
                     /\ UNCHANGED pc
  /\ UNCHANGED <<last_call, story_theme, goal_description, max_path_depth, theme_calls,
                 current_path_depth>>

\* the await in generate_room resumes coroutine i with an answer: the Room is
\* built or the fallback made, and the caller runs on to its return
GenerateRoomReturns(i, answer) ==
  /\ i \in Indices(pending)
  /\ LET task == pending[i]
         new_room == generate_room(task.room_id, task.call, answer)
         rooms1 == Bind(rooms, task.room_id, new_room)
     IN /\ pending' = RemoveAt(pending, i)
        /\ fallback_ids' = IF GenerationRaises(answer)
                           THEN fallback_ids \cup {task.room_id}
                           ELSE fallback_ids \ {task.room_id}
        /\ IF task.caller = "initialize_game"
           THEN /\ rooms' = rooms1
                /\ player' = [NewPlayer EXCEPT !.current_room = "start"]
                /\ pc' = "initialized"
                /\ UNCHANGED response
           ELSE /\ Arrive(task.room_id, rooms1)
                /\ UNCHANGED pc
  /\ UNCHANGED <<last_call, story_theme, goal_description, max_path_depth, theme_calls,
                 current_path_depth, requests>>

\* main(): print(game.cmd_look()) before the first prompt
Welcome ==
  /\ pc = "initialized"
  /\ pc' = "playing"
  /\ last_call' = Call("cmd_look", <<>>)
  /\ response' = LookText(CurrentRoom)
  /\ rooms' = [rooms EXCEPT ![player.current_room] = Visit(@)]
  /\ UNCHANGED <<player, story_theme, goal_description, max_path_depth, theme_calls,
                 current_path_depth, calls>>

\* cmd_move, the entry point of movement, called with any direction
CmdMove(direction) ==
  /\ pc = "playing"
  /\ last_call' = Call("cmd_move", <<direction>>)
  /\ handle_room_transition(direction)
  /\ UNCHANGED session

\* the body of process_command: what it returns and does for a command line
process_command(command) ==
     LET words == Words(command) IN
     IF words = <<>>
     THEN /\ response' = EnterCommandText
          /\ UNCHANGED <<rooms, player, current_path_depth, calls>>
     ELSE
     LET verb == words[1]
         noun == IF Len(words) > 1 THEN words[2] ELSE ""
     IN
     IF verb = "look"
     THEN /\ response' = LookText(CurrentRoom)
          /\ rooms' = [rooms EXCEPT ![player.current_room] = Visit(@)]
          /\ UNCHANGED <<player, current_path_depth, calls>>
     ELSE IF verb = "inventory" \/ verb = "i"
     THEN /\ response' = cmd_inventory(player.inventory)
          /\ UNCHANGED <<rooms, player, current_path_depth, calls>>
     ELSE IF verb \in MoveVerbs
     THEN handle_room_transition(verb)
     ELSE IF verb = "take" /\ noun # ""
     THEN LET r == cmd_take(CurrentRoom.items, player.inventory, noun) IN
          /\ response' = r.text
          /\ rooms' = [rooms EXCEPT ![player.current_room].items = r.items]
          /\ player' = [player EXCEPT !.inventory = r.inventory]
          /\ UNCHANGED <<current_path_depth, calls>>
     ELSE IF verb = "help"
     THEN /\ response' = HelpText
          /\ UNCHANGED <<rooms, player, current_path_depth, calls>>
     ELSE IF verb = "hint"
     THEN /\ \E answer \in HintAnswers : response' = get_contextual_hint(answer)
          /\ UNCHANGED <<rooms, player, current_path_depth, calls>>
     ELSE IF verb = "examine" /\ noun # ""
     THEN /\ response' = cmd_examine(CurrentRoom.items, player.inventory, noun)
          /\ UNCHANGED <<rooms, player, current_path_depth, calls>>
     ELSE /\ response' = DontUnderstandText
          /\ UNCHANGED <<rooms, player, current_path_depth, calls>>

\* process_command, called with a command line
ProcessCommand(command) ==
  /\ pc = "playing"
  /\ last_call' = Call("process_command", command)
  /\ UNCHANGED session
  /\ process_command(command)

\* the lines typed at the prompt, as their words
Commands ==
  {<<>>, <<"Look">>, <<"i">>, <<"n">>, <<"north">>, <<"forward">>, <<"take">>,
   <<"TAKE", "Key">>, <<"take", "lamp">>, <<"examine">>, <<"examine", "key">>,
   <<"help">>, <<"hint">>}

\* the directions cmd_move is called with
Directions == {"forward", "back", "n_n"}

\* main(): one command at a time, the next one read after the last has returned
Command(command) == pending = <<>> /\ ProcessCommand(command)

\* a caller of the Game object that awaits each move before the next
Move(direction) == pending = <<>> /\ CmdMove(direction)

Next ==
  \/ \E theme_answer \in ThemeAnswers : InitializeGame(theme_answer)
  \/ \E i \in 1..MaxTasks, answer \in RoomAnswers : GenerateRoomReturns(i, answer)
  \/ Welcome
  \/ \E command \in Commands : Command(command)
  \/ \E direction \in Directions : Move(direction)

Spec == Init /\ [][Next]_vars

\* a call may start while earlier ones are suspended in generate_room; such
\* overlaps are followed within the first MaxRequests requests of a session
Overlap == pending # <<>> => Len(requests) <= MaxRequests

\* the command lines followed while a call is suspended: a look, the moves, a take
OverlapCommands == {<<"Look">>, <<"n">>, <<"north">>, <<"TAKE", "Key">>}

\* a command line handed to process_command, earlier calls suspended or not
ConcCommand(command) ==
  /\ Overlap
  /\ pending # <<>> => command \in OverlapCommands
  /\ ProcessCommand(command)

\* the directions cmd_move is called with while a call is suspended
OverlapDirections == {"forward", "back"}

\* a call of cmd_move, earlier calls suspended or not
ConcMove(direction) ==
  /\ Overlap
  /\ pending # <<>> => direction \in OverlapDirections
  /\ CmdMove(direction)

\* commands started while earlier ones are still suspended in generate_room
NextConc ==
  \/ \E theme_answer \in ThemeAnswers : InitializeGame(theme_answer)
  \/ \E i \in 1..MaxTasks, answer \in RoomAnswers : GenerateRoomReturns(i, answer)
  \/ Welcome
  \/ \E command \in Commands : ConcCommand(command)
  \/ \E direction \in Directions : ConcMove(direction)

SpecConc == Init /\ [][NextConc]_vars

-----------------------------------------------------------------------------
(* Properties *)

\* no call is suspended: the state main() reads the next command in
Quiet == pc = "playing" /\ pending = <<>>

\* the step is the call of process_command with a line of the given verb
Typed(verb) ==
  /\ last_call'.op = "process_command"
  /\ Words(last_call'.arg) # <<>>
  /\ Words(last_call'.arg)[1] = verb

\* the object of the line the step's call of process_command was given
Noun == IF Len(last_call'.arg) > 1 THEN Words(last_call'.arg)[2] ELSE ""

\* the direction the step's call hands to handle_room_transition, if it does
Moved ==
  IF last_call'.op = "cmd_move" THEN {last_call'.arg[1]}
  ELSE IF /\ last_call'.op = "process_command"
          /\ last_call'.arg # <<>>
          /\ Lower(last_call'.arg[1]) \in MoveVerbs
       THEN {Lower(last_call'.arg[1])}
       ELSE {}

\* C1: when commands run one at a time, a handle_room_transition whose target
\* id is already a key of rooms issues no generation request, leaves
\* current_path_depth as it was and leaves rooms[id] bound to the same Room;
\* and no step ever removes a key from rooms.
C1_IdempotentRealization ==
  [][/\ DOMAIN rooms \subseteq DOMAIN rooms'
     /\ Quiet =>
          \A d \in Moved :
            (d \in DOMAIN CurrentRoom.exits /\ CurrentRoom.exits[d] \in DOMAIN rooms)
            => /\ requests' = requests
               /\ pending' = pending
               /\ current_path_depth' = current_path_depth
               /\ rooms'[CurrentRoom.exits[d]] = rooms[CurrentRoom.exits[d]]
               /\ player'.current_room = CurrentRoom.exits[d]]_vars

\* C1 witness: a second room exists and a move has just brought the player
\* back into start, realized before
C1_Witness ==
  /\ Quiet
  /\ last_call = Call("cmd_move", <<"back">>)
  /\ player.current_room = "start"
  /\ Cardinality(DOMAIN rooms) >= 2
  /\ response \in {LookText(rooms["start"]), GoalText(rooms["start"], goal_description)}

\* C2: under interleaving the generator is invoked at most once for one room
\* id: no two requests of the log name the same id (so the depth rises once
\* for it and rooms[id] is written once).
C2_AtMostOneRealization ==
  \A i, j \in Indices(requests) :
     requests[i].room_id = requests[j].room_id => i = j

\* the exits create_fallback_room is to give room X: forward -> X_forward, back -> start
FallbackExits(X) ==
  [d \in {"forward", "back"} |-> IF d = "back" THEN "start" ELSE X \o "_forward"]

\* C3: every room stored because generation failed has exactly the exits
\* forward -> X_forward and back -> start, is no goal and holds no items,
\* and start is a key of rooms, one step along its back exit; start itself
\* included.
C3_FallbackShape ==
  \A X \in fallback_ids :
     /\ X \in DOMAIN rooms
     /\ rooms[X].exits = FallbackExits(X)
     /\ rooms[X].is_goal = FALSE
     /\ rooms[X].items = <<>>
     /\ "start" \in DOMAIN rooms
     /\ rooms[X].exits["back"] = "start"

\* C3 witness: generation failed for start and for a room reached from it,
\* where the player now stands
C3_Witness ==
  /\ "start" \in fallback_ids
  /\ \E X \in fallback_ids : X # "start" /\ player.current_room = X /\ Quiet

\* the command lines of one word that process_command hands to movement and
\* that handle_room_transition accepts in the given room
MovingCommands(room) ==
  {<<verb>> : verb \in {v \in MoveVerbs : v \in DOMAIN room.exits}}

\* C4: whenever the player stands in a fallback room, some command line moves
\* the player out of it along one of its exits.
C4_NavigableAfterFailure ==
  (Quiet /\ player.current_room \in fallback_ids) => MovingCommands(CurrentRoom) # {}

\* the command lines C5 calls invalid, in the state they are given in
Invalid(command) ==
  LET words == Words(command)
      verb == words[1]
      noun == IF Len(words) > 1 THEN words[2] ELSE ""
  IN \/ words = <<>>
     \/ verb \in MoveVerbs /\ verb \notin DOMAIN CurrentRoom.exits
     \/ verb \notin MoveVerbs \cup {"look", "inventory", "i", "take", "help", "hint", "examine"}
     \/ verb \in {"take", "examine"} /\ noun = ""
     \/ /\ verb = "take" /\ noun # ""
        /\ \A i \in Indices(CurrentRoom.items) : Lower(CurrentRoom.items[i].name) # noun

\* the texts that refuse a command
RefusalTexts ==
  {EnterCommandText, CantGoText, DontUnderstandText}
  \cup {[text |-> "I don't see that here.", item |-> n] : n \in {"key", "lamp"}}

\* C5: an invalid command, and a move called with a direction the current
\* room has no exit for, returns a refusal text and leaves rooms, the player,
\* the path depth and the generation requests as they were.
C5_InvalidCommandsChangeNothing ==
  [][(/\ Quiet
      /\ \/ last_call'.op = "process_command" /\ Invalid(last_call'.arg)
         \/ last_call'.op = "cmd_move" /\ last_call'.arg[1] \notin DOMAIN CurrentRoom.exits)
     => /\ response' \in RefusalTexts
        /\ UNCHANGED <<rooms, player, current_path_depth, requests, pending>>]_vars

\* C5 witness: in a room that holds items, entered by a move, a move through
\* a direction the room has no exit for has just been refused
C5_Witness ==
  /\ Quiet
  /\ response = CantGoText
  /\ last_call.op = "process_command"
  /\ player.current_room # "start"
  /\ CurrentRoom.items # <<>>

\* C6 as claimed: between commands the path depth equals the number of rooms
\* realized so far, that of start included.
C6_DepthCountsEveryRealization ==
  (pc \in {"initialized", "playing"} /\ pending = <<>>)
  => current_path_depth = Cardinality(DOMAIN rooms)

\* C6 as amended: between commands the path depth equals the number of rooms
\* realized by moves, which is every realized room but start; a step raises it
\* by one exactly when it issues the request for a room not yet realized.
C6_DepthCountsMoveRealizations ==
  /\ [](pending = <<>> /\ pc \in {"initialized", "playing"}
        => current_path_depth = Cardinality(DOMAIN rooms \ {"start"}))
  /\ [][IF pc = "playing" /\ Len(requests') = Len(requests) + 1
        THEN /\ current_path_depth' = current_path_depth + 1
             /\ requests'[Len(requests')].room_id \notin DOMAIN rooms
        ELSE current_path_depth' = current_path_depth]_vars

\* C6 witness: two rooms have been realized by moves, and the player has come
\* back into one realized earlier
C6_Witness ==
  /\ Quiet
  /\ current_path_depth = 2
  /\ Cardinality(DOMAIN rooms) = 3
  /\ player.current_room = "start"

\* C7: a move that enters a goal room puts the player there and returns the
\* goal text with goal_description, not the look rendering; and a move from a
\* goal room through one of its exits is carried out as from any room: into
\* the target when it is realized, else by requesting it, and the player is
\* in the requested room when the request returns.
C7_GoalNonTerminality ==
  [][/\ Quiet =>
          \A d \in Moved :
            d \in DOMAIN CurrentRoom.exits
            => LET target == CurrentRoom.exits[d] IN
               IF target \in DOMAIN rooms
               THEN /\ player'.current_room = target
                    /\ rooms[target].is_goal
                       => /\ response' = GoalText(rooms[target], goal_description)
                          /\ rooms' = rooms
               ELSE /\ Len(pending') = 1
                    /\ pending'[1].room_id = target
     /\ (Len(pending) = 1 /\ pending' = <<>> /\ pc = "playing")
        => /\ player'.current_room = pending[1].room_id
           /\ player'.current_room \in DOMAIN rooms'
           /\ rooms'[player'.current_room].is_goal
              => /\ response'.text = "Congratulations!"
                 /\ response'.goal = goal_description
                 /\ response'.description = rooms'[player'.current_room].description
                 /\ ~rooms'[player'.current_room].visited]_vars

\* C7 witness: start_n is a goal room the player entered and then left again
\* through its exit north
C7_Witness ==
  /\ Quiet
  /\ "start_n" \in DOMAIN rooms
  /\ rooms["start_n"].is_goal
  /\ player.current_room = "start_n_north"

\* the rooms a step renders with cmd_look: that of a look command or of
\* main()'s first print, and the room a move enters unless it is a goal room
Rendered ==
  {id \in DOMAIN rooms' :
     /\ id = player'.current_room
     /\ \/ pc = "initialized" /\ pc' = "playing"
        \/ Quiet /\ Typed("look")
        \/ /\ Quiet
           /\ ~rooms'[id].is_goal
           /\ \E d \in Moved : d \in DOMAIN CurrentRoom.exits /\ CurrentRoom.exits[d] = id
        \/ /\ pc = "playing"
           /\ ~rooms'[id].is_goal
           /\ Len(pending') < Len(pending)}

\* C8: a rendering of a room shows its hints only if the room had not been
\* visited (so only the first one does), every rendering leaves visited true,
\* and no step turns a visited flag back to false.
C8_FirstVisitOnlyHints ==
  [][/\ \A id \in DOMAIN rooms : rooms[id].visited => rooms'[id].visited
     /\ \A id \in Rendered :
          /\ rooms'[id].visited
          /\ response'.text = "look"
          /\ response'.hints # <<>> => (id \notin DOMAIN rooms \/ ~rooms[id].visited)
          /\ (id \in DOMAIN rooms /\ rooms[id].visited) => response'.hints = <<>>
          /\ (id \notin DOMAIN rooms \/ ~rooms[id].visited)
             => response'.hints = rooms'[id].hints]_vars

\* C8 witness: a room with hints, entered by a move, has been rendered again,
\* without them
C8_Witness ==
  /\ Quiet
  /\ last_call = Call("process_command", <<"Look">>)
  /\ response = LookText(CurrentRoom)
  /\ response.hints = <<>>
  /\ CurrentRoom.hints # <<>>
  /\ player.current_room # "start"

\* the identities of the item objects in a list
Oids(items) == {items[i].oid : i \in Indices(items)}

\* C9: no item object is at once in a room's list and in the inventory, nor
\* twice anywhere; and a take that reports success has moved the first item
\* of the current room whose lowered name is the noun to the end of the
\* inventory and out of the room.
C9_InventoryTransfer ==
  /\ [](\A id \in DOMAIN rooms :
          /\ Oids(rooms[id].items) \cap Oids(player.inventory) = {}
          /\ Cardinality(Oids(rooms[id].items)) = Len(rooms[id].items))
  /\ [](Cardinality(Oids(player.inventory)) = Len(player.inventory))
  /\ [][(Quiet /\ Typed("take") /\ response'.text = "Taken")
        => \E i \in Indices(CurrentRoom.items) :
             /\ Lower(CurrentRoom.items[i].name) = Noun
             /\ \A j \in 1..(i - 1) : Lower(CurrentRoom.items[j].name) # Noun
             /\ player'.inventory = Append(player.inventory, CurrentRoom.items[i])
             /\ CurrentRoom.items[i].oid \notin Oids(rooms'[player.current_room].items)
             /\ Len(rooms'[player.current_room].items) = Len(CurrentRoom.items) - 1
             /\ Oids(CurrentRoom.items) =
                  Oids(rooms'[player.current_room].items) \cup {CurrentRoom.items[i].oid}]_vars

\* C9 witness: two items equal in every field have both been taken, by a
\* noun that differs from their name in letter case, and the room of the last
\* take still holds a third item equal to them
C9_Witness ==
  /\ Quiet
  /\ Len(player.inventory) >= 2
  /\ ItemEq(player.inventory[1], player.inventory[2])
  /\ player.inventory[1].oid # player.inventory[2].oid
  /\ player.inventory[1].name # Lower(player.inventory[1].name)
  /\ response.text = "Taken"
  /\ \E i \in Indices(CurrentRoom.items) : ItemEq(CurrentRoom.items[i], player.inventory[2])

\* C10: a take whose first matching item of the current room cannot be taken
\* returns the refusal and leaves the room's items and the inventory as they
\* were, also when a later item of the same lowered name can be taken; a
\* take whose first matching item can be taken succeeds.
C10_NonTakableRejection ==
  [][(Quiet /\ Typed("take") /\ Noun # "")
     => \A i \in Indices(CurrentRoom.items) :
          (/\ Lower(CurrentRoom.items[i].name) = Noun
           /\ \A j \in 1..(i - 1) : Lower(CurrentRoom.items[j].name) # Noun)
          => IF CurrentRoom.items[i].can_take
             THEN response' = [text |-> "Taken", item |-> CurrentRoom.items[i].name]
             ELSE /\ response' = [text |-> "You can't take it.",
                                  item |-> CurrentRoom.items[i].name]
                  /\ rooms' = rooms
                  /\ player' = player]_vars

\* C10 witness: a take was refused for an item that cannot be taken while a
\* later item of the room with the same lowered name can, and an item of
\* another name comes first in the room
C10_Witness ==
  /\ Quiet
  /\ response.text = "You can't take it."
  /\ \E i, j \in Indices(CurrentRoom.items) :
       /\ 1 < i
       /\ i < j
       /\ ~CurrentRoom.items[i].can_take
       /\ CurrentRoom.items[j].can_take
       /\ Lower(CurrentRoom.items[i].name) = Lower(CurrentRoom.items[j].name)
       /\ response.item = CurrentRoom.items[i].name

\* the pairs of verbs process_command lists as one direction each
SynonymPairs == {<<"n", "north">>, <<"s", "south">>, <<"e", "east">>, <<"w", "west">>}

\* C11: a command line that is one verb of a pair n/north, s/south, e/east,
\* w/west does what the line of the other verb of the pair does in the same
\* state: the step it takes is a step of either line (same text returned,
\* same rooms, same player, same path depth, same requests).
C11_SynonymsCanonicalized ==
  [][\A p \in SynonymPairs :
       (/\ Quiet
        /\ last_call'.op = "process_command"
        /\ Words(last_call'.arg) \in {<<p[1]>>, <<p[2]>>})
       => /\ process_command(<<p[1]>>)
          /\ process_command(<<p[2]>>)]_vars

\* C12: once initialize_game has returned, player.current_room is a key of
\* rooms in every state, those with moves suspended in a generation call and
\* those after a failed generation included.
C12_LocationAlwaysRealized ==
  pc \in {"initialized", "playing"} => player.current_room \in DOMAIN rooms

\* C12 witness: the player stands in a fallback room other than start and has
\* looked around while a move is suspended in its generation call
C12_Witness ==
  /\ pc = "playing"
  /\ pending # <<>>
  /\ last_call = Call("process_command", <<"Look">>)
  /\ player.current_room \in fallback_ids \ {"start"}
  /\ player.current_room \in DOMAIN rooms

\* the fixed fields of the room create_fallback_room is to return
IsFallbackTemplate(room) ==
  /\ room.name = "Mysterious Chamber"
  /\ room.description = "A mysterious chamber with shifting walls."
  /\ room.items = <<>>
  /\ room.hints = <<"The path ahead seems to pulse with energy.">>
  /\ ~room.is_goal
  /\ DOMAIN room.exits = {"forward", "back"}

\* C13: when commands run one at a time, every realization costs exactly one
\* generation call: the calls issued are as many as the rooms stored plus the
\* calls in flight; a move to an unrealized target issues one call for it and
\* raises the depth by one; the return of a call issues none, stores the room
\* under the requested id and moves the player there, and the room stored
\* after a failed or malformed answer is the fixed fallback room.  A
\* malformed answer never yields a room of its own.
C13_SingleAttemptThenFallback ==
  /\ [](Len(requests) = Cardinality(DOMAIN rooms) + Len(pending))
  /\ [](\A id \in DOMAIN rooms :
          /\ rooms[id].name \in {"Hall", "Vault", "Mysterious Chamber"}
          /\ id \in fallback_ids <=> rooms[id].name = "Mysterious Chamber"
          /\ id \in fallback_ids => IsFallbackTemplate(rooms[id]))
  /\ [][/\ Quiet =>
             \A d \in Moved :
               (d \in DOMAIN CurrentRoom.exits /\ CurrentRoom.exits[d] \notin DOMAIN rooms)
               => /\ Len(requests') = Len(requests) + 1
                  /\ requests'[Len(requests')].room_id = CurrentRoom.exits[d]
                  /\ current_path_depth' = current_path_depth + 1
                  /\ rooms' = rooms
        /\ (pc = "playing" /\ Len(pending') < Len(pending))
           => /\ requests' = requests
              /\ pending' = <<>>
              /\ current_path_depth' = current_path_depth
              /\ DOMAIN rooms' = DOMAIN rooms \cup {pending[1].room_id}
              /\ player'.current_room = pending[1].room_id]_vars

\* C13 witness: from a generated start with exit n, the command n issued the
\* second call of the session, which failed: the depth is 1 and the player
\* stands in start_n, the fallback room
C13_Witness ==
  /\ Quiet
  /\ last_call = Call("process_command", <<"n">>)
  /\ "start" \notin fallback_ids
  /\ player.current_room = "start_n"
  /\ "start_n" \in fallback_ids
  /\ IsFallbackTemplate(rooms["start_n"])
  /\ Len(requests) = 2
  /\ current_path_depth = 1

\* the answers of the theme call that carry theme, goal and backstory
CompleteThemes ==
  {a \in ThemeAnswers : a.ok /\ {"theme", "goal", "backstory"} \subseteq DOMAIN a.data}

\* C14: the theme call is made once, by initialize_game; from then on
\* (story_theme, goal_description) is the (theme, goal) of an answer that
\* carried theme, goal and backstory, or the pair of fixed defaults, never one
\* of each; and no later step changes either value.
C14_ThemeAllOrNothing ==
  /\ [](theme_calls = IF pc = "constructed" THEN 0 ELSE 1)
  /\ [](pc # "constructed"
        => \/ story_theme = "A mysterious adventure"
              /\ goal_description = "Discover the truth and find your way home"
           \/ \E a \in CompleteThemes :
                story_theme = a.data.theme /\ goal_description = a.data.goal)
  /\ [][pc # "constructed" => UNCHANGED <<story_theme, goal_description, theme_calls>>]_vars

\* C14 witness: the session runs on the default theme, and the default goal
\* has just been shown on entering a goal room
C14_Witness ==
  /\ Quiet
  /\ story_theme = "A mysterious adventure"
  /\ goal_description = "Discover the truth and find your way home"
  /\ response.text = "Congratulations!"
  /\ response.goal = "Discover the truth and find your way home"

\* the well-formed answers of room generation
WellFormedRooms == {a \in RoomAnswers : ~GenerationRaises(a)}

\* the room stored under id is whole and comes from one source: the fixed
\* fallback room, or one well-formed answer to one call, from which it has
\* every field and all its items (those taken since apart)
WholeRoom(id) ==
  LET room == rooms[id] IN
  /\ DOMAIN room = {"name", "description", "items", "exits", "visited", "hints", "is_goal"}
  /\ \/ IsFallbackTemplate(room) /\ room.exits = FallbackExits(id)
     \/ \E a \in WellFormedRooms, call \in Indices(requests) :
          /\ requests[call].room_id = id
          /\ room.name = a.data.name
          /\ room.description = a.data.description
          /\ room.hints = Get(a.data, "hints", <<>>)
          /\ room.is_goal = Get(a.data, "is_goal", FALSE)
          /\ room.exits = [d \in a.data.suggested_exits |-> id \o "_" \o d]
          /\ \A i \in Indices(room.items) :
               \E j \in Indices(a.data.items) :
                 /\ room.items[i].oid = <<call, j>>
                 /\ room.items[i].name = a.data.items[j].name
                 /\ room.items[i].description = a.data.items[j].description
                 /\ room.items[i].can_take = a.data.items[j].can_take

\* every room a command can read is whole
RoomsAreWhole == \A id \in DOMAIN rooms : WholeRoom(id)

\* C15: under any interleaving of commands with generation calls in flight,
\* an id is absent from rooms or bound to a whole Room, built from one answer
\* or the fixed fallback; and an id whose call is in flight is absent.
C15_AtomicRealization ==
  /\ RoomsAreWhole
  /\ \A i \in Indices(pending) : pending[i].room_id \notin DOMAIN rooms

\* C16: the request for start carries depth 0 and the request for the k-th
\* room realized by a move carries depth k, the value current_path_depth has
\* from the moment the request is issued; the return of the call, with a
\* generated room or with the fallback room, leaves the depth as it is.
C16_DepthRaisedBeforeCall ==
  /\ [](\A i \in Indices(requests) :
          /\ requests[i].depth = i - 1
          /\ i = 1 <=> requests[i].room_id = "start")
  /\ [](requests # <<>> => current_path_depth = requests[Len(requests)].depth)
  /\ [][Len(pending') < Len(pending) => current_path_depth' = current_path_depth]_vars

\* C16 witness: two rooms have been realized by moves, one generated and one
\* by fallback, and the depth is 2
C16_Witness ==
  /\ Quiet
  /\ Len(requests) = 3
  /\ requests[3].depth = 2
  /\ current_path_depth = 2
  /\ \E X, Y \in DOMAIN rooms \ {"start"} : X \in fallback_ids /\ Y \notin fallback_ids

\* C17 as claimed: a move that starts in a goal room, through one of its
\* exits, never raises current_path_depth, also when the target is not yet
\* realized.
C17_GoalRoomsFreezeDepth ==
  [][(Quiet /\ CurrentRoom.is_goal)
     => \A d \in Moved :
          d \in DOMAIN CurrentRoom.exits => current_path_depth' = current_path_depth]_vars

\* C17 as amended: a move that starts in a goal room is a move like any
\* other: through an exit to an unrealized target it raises the depth by 1
\* and issues the request for the target, through an exit to a realized target
\* it leaves the depth and enters the target; and when the request returns the
\* player has left the goal room for the target, the depth staying raised.
C17_GoalRoomsRaiseDepth ==
  [][/\ (Quiet /\ CurrentRoom.is_goal)
        => \A d \in Moved :
             d \in DOMAIN CurrentRoom.exits
             => IF CurrentRoom.exits[d] \in DOMAIN rooms
                THEN /\ current_path_depth' = current_path_depth
                     /\ player'.current_room = CurrentRoom.exits[d]
                ELSE /\ current_path_depth' = current_path_depth + 1
                     /\ Len(requests') = Len(requests) + 1
                     /\ requests'[Len(requests')].room_id = CurrentRoom.exits[d]
                     /\ requests'[Len(requests')].depth = current_path_depth + 1
     /\ (pc = "playing" /\ CurrentRoom.is_goal /\ Len(pending') < Len(pending))
        => /\ player'.current_room = pending[1].room_id
           /\ player'.current_room # player.current_room
           /\ current_path_depth' = current_path_depth]_vars

\* C17 witness: start is a goal room, and the move north out of it realized
\* start_north, where the player now stands, at depth 1
C17_Witness ==
  /\ Quiet
  /\ rooms["start"].is_goal
  /\ last_call = Call("process_command", <<"north">>)
  /\ player.current_room = "start_north"
  /\ current_path_depth = 1
  /\ Len(requests) = 2

\* C18: max_path_depth keeps the value __init__ gave it and every request
\* carries it; at any depth, also at and past max_path_depth, a move through
\* an exit of the current room is not refused: it enters the target when it
\* is realized, and else raises the depth by one and requests the target,
\* which the player enters when the request returns.
C18_DepthBoundIsAdvisory ==
  /\ [](max_path_depth = DefaultMaxPathDepth)
  /\ [](\A i \in Indices(requests) : requests[i].max_depth = DefaultMaxPathDepth)
  /\ [][/\ Quiet =>
             \A d \in Moved :
               d \in DOMAIN CurrentRoom.exits
               => IF CurrentRoom.exits[d] \in DOMAIN rooms
                  THEN /\ player'.current_room = CurrentRoom.exits[d]
                       /\ response' # CantGoText
                  ELSE /\ current_path_depth' = current_path_depth + 1
                       /\ response' = response
                       /\ pending' = <<[caller |-> "handle_room_transition",
                                        room_id |-> CurrentRoom.exits[d],
                                        call |-> Len(requests')]>>
        /\ (pc = "playing" /\ Len(pending') < Len(pending))
           => /\ player'.current_room = pending[1].room_id
              /\ response' # CantGoText
              /\ current_path_depth' = current_path_depth]_vars

\* C18 witness: at a depth past max_path_depth a move has realized one more
\* room, where the player now stands
C18_Witness ==
  /\ Quiet
  /\ current_path_depth > max_path_depth
  /\ last_call.op = "cmd_move"
  /\ \E i \in Indices(requests) :
       /\ requests[i].depth > requests[i].max_depth
       /\ requests[i].room_id = player.current_room

\* the edges of the world: a realized room and one of its directions
Edges == UNION {{<<X, d>> : d \in DOMAIN rooms[X].exits} : X \in DOMAIN rooms}

\* the back exit of a fallback room
IsFallbackBack(e) == e[1] \in fallback_ids /\ e[2] = "back"

\* the id an edge leads to
Target(e) == rooms[e[1]].exits[e[2]]

\* every exit leads to the id of its room followed by _ and the direction, the
\* back exit of a fallback room to start; and every key of rooms but start is
\* the id of a realized room followed by _ and one of its directions
IdScheme ==
  /\ \A e \in Edges :
       Target(e) = IF IsFallbackBack(e) THEN "start" ELSE e[1] \o "_" \o e[2]
  /\ \A id \in DOMAIN rooms \ {"start"} :
       \E e \in Edges : ~IsFallbackBack(e) /\ id = e[1] \o "_" \o e[2]

\* C19 as claimed: the id scheme holds, and apart from the back exits of
\* fallback rooms no two edges lead to the same realized room.
C19_OnlyBackEdgesRejoin ==
  /\ IdScheme
  /\ \A e1, e2 \in Edges :
       (/\ Target(e1) = Target(e2)
        /\ Target(e1) \in DOMAIN rooms
        /\ ~IsFallbackBack(e1)
        /\ ~IsFallbackBack(e2))
       => e1 = e2

\* C19 as amended: the id scheme holds in every state; two edges other than
\* fallback back exits that lead to the same id are edges whose room id and
\* direction spell the same id.
C19_ExitsFollowIdScheme ==
  /\ IdScheme
  /\ \A e1, e2 \in Edges :
       (Target(e1) = Target(e2) /\ ~IsFallbackBack(e1) /\ ~IsFallbackBack(e2))
       => e1[1] \o "_" \o e1[2] = e2[1] \o "_" \o e2[2]

\* C19 witness: start_n_n was realized through the exit n_n of start, and the
\* player has then entered it from start_n through the exit n, without a
\* generation call
C19_Witness ==
  /\ Quiet
  /\ Len(requests) = 3
  /\ requests[2].room_id = "start_n_n"
  /\ requests[3].room_id = "start_n"
  /\ last_call = Call("process_command", <<"n">>)
  /\ player.current_room = "start_n_n"
  /\ "n" \in DOMAIN rooms["start_n"].exits

\* the item objects held anywhere: in the rooms and in the inventory
HeldOids ==
  Oids(player.inventory) \cup UNION {Oids(rooms[id].items) : id \in DOMAIN rooms}

\* the places items are held in: the positions of the rooms' lists and of
\* the inventory
Places ==
  {<<"inventory", i>> : i \in Indices(player.inventory)}
  \cup UNION {{<<id, i>> : i \in Indices(rooms[id].items)} : id \in DOMAIN rooms}

\* C20: when commands run one at a time, no item object is held in two
\* places; a step that stores a new room adds that room's items, all of them
\* new, and touches no other list; a take that reports success moves one item
\* of the current room to the end of the inventory and touches no other list;
\* every other step leaves every room's items and the inventory as they were,
\* so that no item is lost and none leaves the inventory.
C20_ItemConservation ==
  /\ [](Cardinality(Places) = Cardinality(HeldOids))
  /\ [][LET took == Quiet /\ Typed("take") /\ response'.text = "Taken"
            new == DOMAIN rooms' \ DOMAIN rooms
        IN /\ \A id \in DOMAIN rooms :
                (took /\ id = player.current_room) \/ rooms'[id].items = rooms[id].items
           /\ ~took => player'.inventory = player.inventory
           /\ new # {} => Len(pending') < Len(pending)
           /\ \A id \in new : Oids(rooms'[id].items) \cap HeldOids = {}
           /\ took => /\ new = {}
                      /\ \E i \in Indices(CurrentRoom.items) :
                           /\ player'.inventory = Append(player.inventory, CurrentRoom.items[i])
                           /\ rooms'[player.current_room].items = RemoveAt(CurrentRoom.items, i)]_vars

\* C20 witness: an item taken in start is carried into a room realized
\* later, which holds items of its own, and a command that is no take has
\* just run there
C20_Witness ==
  /\ Quiet
  /\ last_call = Call("process_command", <<"examine", "key">>)
  /\ Len(player.inventory) = 1
  /\ player.inventory[1].oid[1] = 1
  /\ player.current_room # "start"
  /\ CurrentRoom.items # <<>>

====
